---- MODULE Spec2Model ----
(***************************************************************************)
(* Model of src/src/utils.ts: the auth and expense CRUD helpers of the     *)
(* expense tracker.  The identity service is the variable currentUser, the *)
(* document database is the variable store (users/{uid}/expenses), and     *)
(* every exported async function is one action that records in `last`      *)
(* what the call was given, which database operations it issued and how    *)
(* it settled.                                                             *)
(***************************************************************************)
EXTENDS Integers, Sequences, FiniteSets

(***************************************************************************)
(* JavaScript values.  Every value has the same three fields so that any   *)
(* two of them can be compared.                                            *)
(***************************************************************************)
Num(n) == [t |-> "number", n |-> n, s |-> <<>>]
NaN == [t |-> "NaN", n |-> 0, s |-> <<>>]
Infinity == [t |-> "Infinity", n |-> 0, s |-> <<>>]
Str(s) == [t |-> "string", n |-> 0, s |-> s]
Bool(b) == [t |-> "boolean", n |-> IF b THEN 1 ELSE 0, s |-> <<>>]
Null == [t |-> "null", n |-> 0, s |-> <<>>]
Undefined == [t |-> "undefined", n |-> 0, s |-> <<>>]

\* Bounds: the documents the database holds in all, and the documents
\* seedExpensesIfEmpty adds (utils.ts asks for 100).
MaxDocs == 2
SeedCount == 1

Users == {"u1", "u2"}
NoUser == "none"

IsWhite(c) == c \in {" ", "\t", "\n"}

RECURSIVE TrimStart(_)
TrimStart(s) ==
    IF s = <<>> THEN <<>>
    ELSE IF IsWhite(Head(s)) THEN TrimStart(Tail(s)) ELSE s

RECURSIVE TrimEnd(_)
TrimEnd(s) ==
    IF s = <<>> THEN <<>>
    ELSE IF IsWhite(s[Len(s)]) THEN TrimEnd(SubSeq(s, 1, Len(s) - 1)) ELSE s

\* String.prototype.trim
Trim(s) == TrimEnd(TrimStart(s))

Digits == <<"0", "1", "2", "3", "4", "5", "6", "7", "8", "9">>
IsDigit(c) == \E i \in 1..10 : Digits[i] = c
DigitVal(c) == (CHOOSE i \in 1..10 : Digits[i] = c) - 1

RECURSIVE DecimalValue(_)
DecimalValue(s) ==
    IF s = <<>> THEN 0
    ELSE 10 * DecimalValue(SubSeq(s, 1, Len(s) - 1)) + DigitVal(s[Len(s)])

\* Number(<string>): surrounding whitespace is dropped, the empty string is 0,
\* an optionally signed run of digits is its value, anything else is NaN.
StringToNumber(s) ==
    LET t == Trim(s)
        signed == t # <<>> /\ Head(t) \in {"-", "+"}
        body == IF signed THEN Tail(t) ELSE t
    IN  IF t = <<>> THEN Num(0)
        ELSE IF body # <<>> /\ \A i \in 1..Len(body) : IsDigit(body[i])
        THEN Num(IF signed /\ Head(t) = "-" THEN 0 - DecimalValue(body)
                 ELSE DecimalValue(body))
        ELSE NaN

\* Number(v)
ToNumber(v) ==
    CASE v.t \in {"number", "NaN", "Infinity"} -> v
      [] v.t = "string" -> StringToNumber(v.s)
      [] v.t = "boolean" -> Num(v.n)
      [] v.t = "null" -> Num(0)
      [] OTHER -> NaN

\* Boolean(v), the truthiness `!v` and `!!v` test.
ToBoolean(v) ==
    CASE v.t = "number" -> v.n # 0
      [] v.t = "Infinity" -> TRUE
      [] v.t = "string" -> v.s # <<>>
      [] v.t = "boolean" -> v.n = 1
      [] OTHER -> FALSE

RECURSIVE NatToString(_)
NatToString(n) ==
    IF n < 10 THEN <<Digits[n + 1]>>
    ELSE NatToString(n \div 10) \o <<Digits[(n % 10) + 1]>>

\* String(v)
StringOf(v) ==
    CASE v.t = "string" -> v.s
      [] v.t = "number" ->
            IF v.n < 0 THEN <<"-">> \o NatToString(0 - v.n) ELSE NatToString(v.n)
      [] v.t = "NaN" -> <<"N", "a", "N">>
      [] v.t = "Infinity" -> <<"I", "n", "f", "i", "n", "i", "t", "y">>
      [] v.t = "boolean" ->
            IF v.n = 1 THEN <<"t", "r", "u", "e">> ELSE <<"f", "a", "l", "s", "e">>
      [] v.t = "null" -> <<"n", "u", "l", "l">>
      [] OTHER -> <<"u", "n", "d", "e", "f", "i", "n", "e", "d">>

\* isNaN(x) and x < 0 on a value already passed through Number().
IsNaN(v) == v.t = "NaN"
IsNegative(v) == v.t = "number" /\ v.n < 0

\* `x ?? d`
Coalesce(v, d) == IF v.t \in {"null", "undefined"} THEN d ELSE v

(***************************************************************************)
(* Inputs the callers are given.                                           *)
(***************************************************************************)
Fields == {"description", "date", "cost", "deleted"}

\* The expenses given to addExpense in Spec and SpecUpdate.
AddInputs ==
    [description : {Str(<<"a">>)},
     date : {Str(<<"1">>), Str(<<"2">>)},
     cost : {Num(0 - 1), Num(42)},
     deleted : {Bool(FALSE)}]

\* The expenses given to addExpense where its validation is examined (SpecAdd).
AddInputsWide ==
    [description : {Str(<<>>), Str(<<" ">>), Str(<<"a">>), Str(<<" ", "a">>)},
     date : {Str(<<"1">>)},
     cost : {Num(0 - 1), Num(42), Infinity, NaN, Str(<<>>), Str(<<"x">>), Null,
             Bool(FALSE)},
     deleted : {Bool(FALSE), Bool(TRUE)}]

\* The partial updates given to updateExpense; Undefined is an absent field.
\* In Spec the description is never among them.
UpdateInputs ==
    [description : {Undefined},
     date : {Undefined, Str(<<"2">>)},
     cost : {Undefined, Str(<<"-", "1">>)},
     deleted : {Undefined, Num(1)}]

\* Every subset of the four fields (SpecUpdate).
UpdateInputsWide ==
    [description : {Undefined, Str(<<>>)},
     date : {Undefined, Str(<<"2">>)},
     cost : {Undefined, Str(<<"-", "1">>)},
     deleted : {Undefined, Num(1)}]

Statuses == {200, 401, 403, 500}

(***************************************************************************)
(* State.                                                                  *)
(***************************************************************************)
VARIABLES
    currentUser,    \* auth.currentUser: a uid, or NoUser
    store,          \* store[uid]: the documents of users/{uid}/expenses, by id
    location,       \* window.location
    last            \* the call that settled last: arguments, effects, outcome

vars == <<currentUser, store, location, last>>

NoArg ==
    [description |-> Undefined, date |-> Undefined, cost |-> Undefined,
     deleted |-> Undefined]

NoCall ==
    [op |-> "none", uid |-> NoUser, arg |-> NoArg, id |-> 0, err |-> "none",
     dbCalls |-> <<>>, list |-> <<>>, status |-> 0, assigns |-> 0]

NoDocs == [i \in {} |-> NoArg]

RECURSIVE TotalDocs(_, _)
TotalDocs(st, us) ==
    IF us = {} THEN 0
    ELSE LET u == CHOOSE x \in us : TRUE
         IN  Cardinality(DOMAIN st[u]) + TotalDocs(st, us \ {u})

Init ==
    /\ currentUser = NoUser
    /\ store = [u \in Users |-> NoDocs]
    /\ location = "/"
    /\ last = NoCall

(***************************************************************************)
(* The document database, as the calls of this module use it.              *)
(***************************************************************************)
\* expensesCol(uid): the collection users/{uid}/expenses.
ExpensesCol(st, uid) == st[uid]

\* addDoc: the backend assigns an id no document of the collection has.
NewId(col) == CHOOSE i \in 1..(Cardinality(DOMAIN col) + 1) : i \notin DOMAIN col

AddDoc(st, uid, payload) ==
    LET col == ExpensesCol(st, uid)
        id == NewId(col)
    IN  [st EXCEPT ![uid] =
            [i \in DOMAIN col \cup {id} |-> IF i = id THEN payload ELSE col[i]]]

\* updateDoc: the fields of body replace those of the document, the others
\* stay; a document that does not exist is an error and nothing is written.
DocExists(st, uid, id) == id \in DOMAIN ExpensesCol(st, uid)

UpdateDoc(st, uid, id, body) ==
    IF ~DocExists(st, uid, id) THEN st
    ELSE [st EXCEPT ![uid][id] =
            [f \in DOMAIN @ |-> IF f \in DOMAIN body THEN body[f] ELSE @[f]]]

\* Order of string values in a query: by character code, a prefix first.
Alphabet == <<"\t", "\n", " ", "+", "-">> \o Digits \o <<"a", "b", "x">>
CharCode(c) == CHOOSE i \in 1..Len(Alphabet) : Alphabet[i] = c

RECURSIVE StringLess(_, _)
StringLess(a, b) ==
    IF b = <<>> THEN FALSE
    ELSE IF a = <<>> THEN TRUE
    ELSE IF Head(a) = Head(b) THEN StringLess(Tail(a), Tail(b))
    ELSE CharCode(Head(a)) < CharCode(Head(b))

\* orderBy("date", "desc"): does document i come before document j?  Equal
\* dates are ordered by document id, in the direction of the query.
DateDescBefore(col, i, j) ==
    \/ StringLess(col[j].date.s, col[i].date.s)
    \/ col[i].date = col[j].date /\ i > j

RECURSIVE OrderIds(_, _)
OrderIds(col, ids) ==
    IF ids = {} THEN <<>>
    ELSE LET first == CHOOSE i \in ids :
                        \A j \in ids \ {i} : DateDescBefore(col, i, j)
         IN  <<first>> \o OrderIds(col, ids \ {first})

\* The query without its where clause.
QueryDocs_NoFilter(st, uid) ==
    LET col == ExpensesCol(st, uid) IN OrderIds(col, DOMAIN col)

\* query(expensesCol(uid), where("deleted", "==", false), orderBy("date", "desc"))
\* followed by getDocs: the ids of the snapshot's documents, in order.
QueryDocs(st, uid) ==
    LET col == ExpensesCol(st, uid)
    IN  OrderIds(col, {i \in DOMAIN col : col[i].deleted = Bool(FALSE)})

(***************************************************************************)
(* The module's own logic.                                                 *)
(***************************************************************************)
\* requireUid that falls back to a default account instead of throwing.
RequireUid_Fallback(cu) == [ok |-> TRUE, uid |-> IF cu = NoUser THEN "u1" ELSE cu]

\* requireUid
RequireUid(cu) == [ok |-> cu # NoUser, uid |-> cu]

\* The mapping of fetchExpenses from a snapshot document to an Expense.
ToExpense(id, x) ==
    [id |-> id,
     description |-> Str(StringOf(Coalesce(x.description, Str(<<>>)))),
     date |-> Str(StringOf(Coalesce(x.date, Str(<<>>)))),
     cost |-> ToNumber(Coalesce(x.cost, Num(0))),
     deleted |-> Bool(ToBoolean(Coalesce(x.deleted, Bool(FALSE))))]

\* What fetchExpenses resolves to for a signed-in uid.
FetchList(st, uid) ==
    LET ids == QueryDocs(st, uid)
    IN  [k \in 1..Len(ids) |-> ToExpense(ids[k], ExpensesCol(st, uid)[ids[k]])]

\* The description check testing for null instead of for a falsy value.
DescriptionMissing_NullOnly(expense) ==
    expense.description.t \in {"null", "undefined"}

\* The two checks of addExpense.
DescriptionMissing(expense) == ~ToBoolean(expense.description)

CostInvalid(expense) ==
    IsNaN(ToNumber(expense.cost)) \/ IsNegative(ToNumber(expense.cost))

\* The payload taking the caller's deleted flag.
Payload_KeepDeleted(expense) ==
    [description |-> Str(Trim(expense.description.s)),
     date |-> Str(StringOf(expense.date)),
     cost |-> ToNumber(expense.cost),
     deleted |-> Bool(ToBoolean(expense.deleted)),
     createdAt |-> Str(<<"s", "e", "r", "v", "e", "r">>)]

\* The payload addExpense writes.
Payload(expense) ==
    [description |-> Str(Trim(expense.description.s)),
     date |-> Str(StringOf(expense.date)),
     cost |-> ToNumber(expense.cost),
     deleted |-> Bool(FALSE),
     createdAt |-> Str(<<"s", "e", "r", "v", "e", "r">>)]

\* The body holding every field, an absent one as its coerced default.
UpdateBody_Full(next) ==
    [f \in Fields |->
        CASE f = "cost" -> ToNumber(next.cost)
          [] f = "deleted" -> Bool(ToBoolean(next.deleted))
          [] OTHER -> Coalesce(next[f], Str(<<>>))]

\* The body updateExpense builds from `next`.
UpdateBody(next) ==
    [f \in {g \in Fields : next[g] # Undefined} |->
        CASE f = "cost" -> ToNumber(next.cost)
          [] f = "deleted" -> Bool(ToBoolean(next.deleted))
          [] OTHER -> next[f]]

\* deleteExpense removing the document.
DeleteWrite_Hard(st, uid, id) ==
    [st EXCEPT ![uid] = [i \in DOMAIN @ \ {id} |-> @[i]]]

\* The write of deleteExpense.
DeleteWrite(st, uid, id) ==
    UpdateDoc(st, uid, id, [f \in {"deleted"} |-> Bool(TRUE)])

(***************************************************************************)
(* Identity operations.                                                    *)
(***************************************************************************)
Seed == [description |-> Str(<<"a">>), date |-> Str(<<"1">>), cost |-> Num(42),
         deleted |-> Bool(FALSE)]

RECURSIVE SeedDocs(_, _, _)
SeedDocs(st, uid, n) ==
    IF n = 0 THEN st ELSE SeedDocs(AddDoc(st, uid, Payload(Seed)), uid, n - 1)

\* seedExpensesIfEmpty(uid, n) of ./dev/seed
SeedExpensesIfEmpty(st, uid, n) ==
    IF DOMAIN ExpensesCol(st, uid) = {} THEN SeedDocs(st, uid, n) ELSE st

SeedFits(st, uid) ==
    DOMAIN ExpensesCol(st, uid) = {} => TotalDocs(st, Users) + SeedCount <= MaxDocs

\* signUp(email, password, seed): `accepted` is the identity service's answer,
\* isLocal whether the page is served from localhost.
SignUp(u, seed, isLocal, accepted) ==
    /\ (accepted /\ isLocal /\ seed) => SeedFits(store, u)
    /\ IF accepted
       THEN /\ currentUser' = u
            /\ store' = IF isLocal /\ seed
                        THEN SeedExpensesIfEmpty(store, u, SeedCount) ELSE store
            /\ last' = [NoCall EXCEPT !.op = "signUp", !.uid = u]
       ELSE /\ last' = [NoCall EXCEPT !.op = "signUp", !.err = "AuthError"]
            /\ UNCHANGED <<currentUser, store>>
    /\ UNCHANGED location

\* signIn(email, password)
SignIn(u, isLocal, accepted) ==
    /\ (accepted /\ isLocal) => SeedFits(store, u)
    /\ IF accepted
       THEN /\ currentUser' = u
            /\ store' = IF isLocal
                        THEN SeedExpensesIfEmpty(store, u, SeedCount) ELSE store
            /\ last' = [NoCall EXCEPT !.op = "signIn", !.uid = u]
       ELSE /\ last' = [NoCall EXCEPT !.op = "signIn", !.err = "AuthError"]
            /\ UNCHANGED <<currentUser, store>>
    /\ UNCHANGED location

\* signOut()
SignOut(accepted) ==
    /\ IF currentUser = NoUser
       THEN /\ last' = [NoCall EXCEPT !.op = "signOut"]
            /\ UNCHANGED currentUser
       ELSE IF accepted
       THEN /\ currentUser' = NoUser
            /\ last' = [NoCall EXCEPT !.op = "signOut", !.uid = currentUser]
       ELSE /\ last' = [NoCall EXCEPT !.op = "signOut", !.uid = currentUser,
                                      !.err = "AuthError"]
            /\ UNCHANGED currentUser
    /\ UNCHANGED <<store, location>>

(***************************************************************************)
(* Authenticated fetch.                                                    *)
(***************************************************************************)
\* getIdToken()
GetIdToken(cu) == IF cu = NoUser THEN "none" ELSE cu

\* The test taking every client error for a 401.
IsUnauthorized_AnyClientError(status) == status >= 400 /\ status < 500

\* The test authedFetch makes on the response.
IsUnauthorized(status) == status = 401

\* authedFetch(input, init): status is the status of the response.
AuthedFetch(status) ==
    LET authorization == GetIdToken(currentUser)
        call == [NoCall EXCEPT !.op = "authedFetch", !.uid = authorization,
                               !.status = status]
    IN  /\ IF IsUnauthorized(status)
           THEN /\ location' = "/signin"
                /\ last' = [call EXCEPT !.err = "Unauthorized", !.assigns = 1]
           ELSE /\ last' = call
                /\ UNCHANGED location
        /\ UNCHANGED <<currentUser, store>>

(***************************************************************************)
(* Expense CRUD.                                                           *)
(***************************************************************************)
FetchExpenses ==
    LET r == RequireUid(currentUser)
    IN  /\ last' =
              IF ~r.ok
              THEN [NoCall EXCEPT !.op = "fetchExpenses", !.err = "Not signed in"]
              ELSE [NoCall EXCEPT !.op = "fetchExpenses", !.uid = r.uid,
                                  !.dbCalls = <<"getDocs">>,
                                  !.list = FetchList(store, r.uid)]
        /\ UNCHANGED <<currentUser, store, location>>

AddExpense(expense) ==
    LET r == RequireUid(currentUser)
        call == [NoCall EXCEPT !.op = "addExpense", !.arg = expense]
    IN  /\ IF ~r.ok
           THEN /\ last' = [call EXCEPT !.err = "Not signed in"]
                /\ UNCHANGED store
           ELSE IF DescriptionMissing(expense)
           THEN /\ last' = [call EXCEPT !.uid = r.uid,
                                        !.err = "Description is required"]
                /\ UNCHANGED store
           ELSE IF CostInvalid(expense)
           THEN /\ last' = [call EXCEPT !.uid = r.uid,
                                        !.err = "Enter a valid non-negative cost"]
                /\ UNCHANGED store
           ELSE /\ TotalDocs(store, Users) < MaxDocs
                /\ store' = AddDoc(store, r.uid, Payload(expense))
                /\ last' = [call EXCEPT !.uid = r.uid, !.dbCalls = <<"addDoc">>]
        /\ UNCHANGED <<currentUser, location>>

UpdateExpense(id, next) ==
    LET r == RequireUid(currentUser)
        call == [NoCall EXCEPT !.op = "updateExpense", !.id = id, !.arg = next]
    IN  /\ IF ~r.ok
           THEN /\ last' = [call EXCEPT !.err = "Not signed in"]
                /\ UNCHANGED store
           ELSE /\ store' = UpdateDoc(store, r.uid, id, UpdateBody(next))
                /\ last' = [call EXCEPT !.uid = r.uid, !.dbCalls = <<"updateDoc">>,
                              !.err = IF DocExists(store, r.uid, id)
                                      THEN "none" ELSE "not-found"]
        /\ UNCHANGED <<currentUser, location>>

DeleteExpense(id) ==
    LET r == RequireUid(currentUser)
        call == [NoCall EXCEPT !.op = "deleteExpense", !.id = id]
    IN  /\ IF ~r.ok
           THEN /\ last' = [call EXCEPT !.err = "Not signed in"]
                /\ UNCHANGED store
           ELSE /\ store' = DeleteWrite(store, r.uid, id)
                /\ last' = [call EXCEPT !.uid = r.uid, !.dbCalls = <<"updateDoc">>,
                              !.err = IF DocExists(store, r.uid, id)
                                      THEN "none" ELSE "not-found"]
        /\ UNCHANGED <<currentUser, location>>

DocIds == 1..MaxDocs

\* The identity operations and the expense operations.  authedFetch reads
\* currentUser and writes location only, which no expense operation reads;
\* it runs with the identity operations in SpecFetch.
Next ==
    \/ \E u \in Users, seed, isLocal, accepted \in BOOLEAN :
          SignUp(u, seed, isLocal, accepted)
    \/ \E u \in Users, isLocal, accepted \in BOOLEAN : SignIn(u, isLocal, accepted)
    \/ \E accepted \in BOOLEAN : SignOut(accepted)
    \/ FetchExpenses
    \/ \E expense \in AddInputs : AddExpense(expense)
    \/ \E id \in DocIds, next \in UpdateInputs : UpdateExpense(id, next)
    \/ \E id \in DocIds : DeleteExpense(id)

Spec == Init /\ [][Next]_vars

\* The expense operations with addExpense given the wide inputs.
NextAdd ==
    \/ \E u \in Users, isLocal, accepted \in BOOLEAN : SignIn(u, isLocal, accepted)
    \/ \E accepted \in BOOLEAN : SignOut(accepted)
    \/ FetchExpenses
    \/ \E expense \in AddInputsWide : AddExpense(expense)

SpecAdd == Init /\ [][NextAdd]_vars

\* The expense operations with updateExpense given every subset of the fields.
NextUpdate ==
    \/ \E u \in Users, isLocal, accepted \in BOOLEAN : SignIn(u, isLocal, accepted)
    \/ \E accepted \in BOOLEAN : SignOut(accepted)
    \/ \E expense \in AddInputs : AddExpense(expense)
    \/ \E id \in DocIds, next \in UpdateInputsWide : UpdateExpense(id, next)

SpecUpdate == Init /\ [][NextUpdate]_vars

\* The identity operations and authedFetch alone.
NextFetch ==
    \/ \E u \in Users, seed, isLocal, accepted \in BOOLEAN :
          SignUp(u, seed, isLocal, accepted)
    \/ \E u \in Users, isLocal, accepted \in BOOLEAN : SignIn(u, isLocal, accepted)
    \/ \E accepted \in BOOLEAN : SignOut(accepted)
    \/ \E status \in Statuses : AuthedFetch(status)

SpecFetch == Init /\ [][NextFetch]_vars

(***************************************************************************)
(* Vocabulary of the properties.                                           *)
(***************************************************************************)
NotSignedIn == "Not signed in"
ValidationError == {"Description is required", "Enter a valid non-negative cost"}
CrudOps == {"fetchExpenses", "addExpense", "updateExpense", "deleteExpense"}
NumberTypes == {"number", "NaN", "Infinity"}

\* The step is a call of `op` made while uid is signed in.
SignedInCall(op) == last'.op = op /\ currentUser # NoUser

\* The ids fetchExpenses would return for uid in store st.
FetchedIds(st, uid) == {FetchList(st, uid)[k].id : k \in 1..Len(FetchList(st, uid))}

\* A numeric cost: a number other than NaN, or a string that spells one.
NumericCost(v) ==
    \/ v.t \in {"number", "Infinity"}
    \/ v.t = "string" /\ Trim(v.s) # <<>> /\ ~IsNaN(StringToNumber(v.s))

NegativeCost(v) == v.t = "number" /\ v.n < 0

\* An expense addExpense is meant to accept.
ValidExpense(e) ==
    /\ e.description.t = "string" /\ e.description.s # <<>>
    /\ e.date.t = "string"
    /\ \/ e.cost.t = "number" /\ e.cost.n >= 0
       \/ e.cost.t = "Infinity"

SuccessfulValidAdd ==
    SignedInCall("addExpense") /\ last'.err = "none" /\ ValidExpense(last'.arg)

\* Field f of the record after the update, given the value before and the
\* value (or Undefined) the caller passed.
FieldUpdated(f, before, given, after) ==
    IF given = Undefined THEN after = before
    ELSE CASE f = "cost" ->
                /\ after.t \in NumberTypes
                /\ given.t \in NumberTypes => after = given
                /\ given = Str(<<"-", "1">>) => after = Num(0 - 1)
           [] f = "deleted" ->
                /\ after.t = "boolean"
                /\ given.t = "boolean" => after = given
                /\ given = Num(1) => after = Bool(TRUE)
           [] OTHER -> after = given

(***************************************************************************)
(* C1. With no identity resolved, each of fetchExpenses, addExpense,       *)
(* updateExpense and deleteExpense fails with NotSignedIn, issues no call  *)
(* to the document database and leaves every collection unchanged.         *)
(***************************************************************************)
C1_UnauthenticatedCrudFails ==
    [][(currentUser = NoUser /\ last'.op \in CrudOps) =>
          /\ last'.err = NotSignedIn
          /\ last'.dbCalls = <<>>
          /\ store' = store]_vars

C1_Witness ==
    /\ currentUser = NoUser
    /\ last.op \in {"addExpense", "updateExpense", "deleteExpense"}
    /\ last.err = NotSignedIn
    /\ \E u \in Users : DOMAIN store[u] # {}

(***************************************************************************)
(* C2. addExpense by a signed-in identity with an empty description, for   *)
(* any date and cost, fails with a ValidationError and writes nothing.     *)
(***************************************************************************)
C2_EmptyDescriptionRejected ==
    [][(SignedInCall("addExpense") /\ last'.arg.description = Str(<<>>)) =>
          /\ last'.err \in ValidationError
          /\ last'.dbCalls = <<>>
          /\ store' = store]_vars

C2_Witness ==
    /\ last.op = "addExpense"
    /\ last.uid # NoUser
    /\ last.arg.description = Str(<<>>)
    /\ last.arg.cost = Num(42)
    /\ last.err = "Description is required"

(***************************************************************************)
(* C3. addExpense by a signed-in identity with a non-empty description and *)
(* a cost that is negative or not numeric (the empty string, null, a       *)
(* boolean, an unparsable string) fails with a ValidationError and writes  *)
(* nothing.                                                                *)
(***************************************************************************)
C3_BadCostRejected ==
    [][(/\ SignedInCall("addExpense")
        /\ last'.arg.description.s # <<>>
        /\ (NegativeCost(last'.arg.cost) \/ ~NumericCost(last'.arg.cost))) =>
          /\ last'.err \in ValidationError
          /\ store' = store]_vars

C3_FailingInput ==
    /\ last.op = "addExpense"
    /\ last.arg.cost = Str(<<>>)
    /\ last.err = "none"

(***************************************************************************)
(* C4. After a successful addExpense of a valid expense (non-empty         *)
(* description, numeric cost >= 0) by a signed-in identity, fetchExpenses  *)
(* by that identity includes a record whose description, date and cost     *)
(* equal the input's and whose deleted is false, whatever deleted value    *)
(* the input carried.                                                      *)
(***************************************************************************)
C4_AddThenFetch_AsClaimed ==
    [][SuccessfulValidAdd =>
          \E k \in 1..Len(FetchList(store', currentUser)) :
              LET r == FetchList(store', currentUser)[k]
              IN  /\ r.description = last'.arg.description
                  /\ r.date = last'.arg.date
                  /\ r.cost = last'.arg.cost
                  /\ r.deleted = Bool(FALSE)]_vars

\* C4, amended: as above, except that the description read back is the
\* description given with its leading and trailing whitespace removed.
C4_AddThenFetch ==
    [][SuccessfulValidAdd =>
          \E k \in 1..Len(FetchList(store', currentUser)) :
              LET r == FetchList(store', currentUser)[k]
                  d == last'.arg.description.s
              IN  /\ r.id \notin DOMAIN store[currentUser]
                  /\ r.description.t = "string"
                  /\ \E i \in 1..(Len(d) + 1), j \in 0..Len(d) :
                        /\ r.description.s = SubSeq(d, i, j)
                        /\ \A m \in 1..Len(d) : (m < i \/ m > j) => IsWhite(d[m])
                        /\ i <= j => ~IsWhite(d[i]) /\ ~IsWhite(d[j])
                  /\ r.date = last'.arg.date
                  /\ r.cost = last'.arg.cost
                  /\ r.deleted = Bool(FALSE)]_vars

C4_Witness ==
    /\ last.op = "addExpense"
    /\ last.err = "none"
    /\ last.arg.description = Str(<<" ", "a">>)
    /\ last.arg.cost = Num(42)
    /\ last.arg.deleted = Bool(TRUE)
    /\ \E k \in 1..Len(FetchList(store, currentUser)) :
          FetchList(store, currentUser)[k].description = Str(<<"a">>)

(***************************************************************************)
(* C5. deleteExpense(id) by a signed-in identity on an existing record is  *)
(* a soft delete: the record stays in the collection with deleted = true   *)
(* and its description, date and cost unchanged, fetchExpenses no longer   *)
(* includes it, and no step of any operation removes a stored record id.   *)
(***************************************************************************)
C5_SoftDelete ==
    [][/\ \A u \in Users : DOMAIN store[u] \subseteq DOMAIN store'[u]
       /\ (SignedInCall("deleteExpense")
             /\ last'.id \in DOMAIN store[currentUser]) =>
            LET before == store[currentUser][last'.id]
                after == store'[currentUser][last'.id]
            IN  /\ last'.err = "none"
                /\ after.deleted = Bool(TRUE)
                /\ after.description = before.description
                /\ after.date = before.date
                /\ after.cost = before.cost
                /\ last'.id \notin FetchedIds(store', currentUser)]_vars

C5_Witness ==
    /\ last.op = "deleteExpense"
    /\ last.err = "none"
    /\ last.uid = currentUser
    /\ store[currentUser][last.id].deleted = Bool(TRUE)
    /\ FetchedIds(store, currentUser) # {}
    /\ last.id \notin FetchedIds(store, currentUser)

(***************************************************************************)
(* C6. updateExpense(id, partialFields) changes exactly the fields present *)
(* in partialFields on record id (cost stored as a number, deleted as a    *)
(* boolean) and leaves every absent field of that record, and every other  *)
(* record, unchanged.                                                      *)
(***************************************************************************)
C6_PartialUpdate ==
    [][SignedInCall("updateExpense") =>
          /\ \A u \in Users : DOMAIN store'[u] = DOMAIN store[u]
          /\ \A u \in Users : \A i \in DOMAIN store[u] :
                IF u = currentUser /\ i = last'.id
                THEN /\ \A f \in Fields :
                          FieldUpdated(f, store[u][i][f], last'.arg[f],
                                       store'[u][i][f])
                     /\ store'[u][i].createdAt = store[u][i].createdAt
                ELSE store'[u][i] = store[u][i]]_vars

C6_Witness ==
    /\ last.op = "updateExpense"
    /\ last.err = "none"
    /\ last.arg = [NoArg EXCEPT !.cost = Str(<<"-", "1">>)]
    /\ store[last.uid][last.id].cost = Num(0 - 1)
    /\ store[last.uid][last.id].description = Str(<<"a">>)
    /\ \E u \in Users \ {last.uid} : DOMAIN store[u] # {}

(***************************************************************************)
(* C7. Every expense record this module has stored has a cost that is a    *)
(* finite number >= 0.                                                     *)
(***************************************************************************)
C7_CostFiniteNonNegative ==
    \A u \in Users : \A i \in DOMAIN store[u] :
        store[u][i].cost.t = "number" /\ store[u][i].cost.n >= 0

C7_FailingInput ==
    /\ last.op = "updateExpense"
    /\ last.err = "none"
    /\ store[last.uid][last.id].cost = Num(0 - 1)

(***************************************************************************)
(* C8. fetchExpenses by a signed-in identity u returns exactly the records *)
(* of users/u/expenses whose deleted flag is false, none of another        *)
(* identity, by date descending; with no such record it returns the empty  *)
(* list and no error.                                                      *)
(***************************************************************************)
C8_FetchScopedOrdered ==
    (last.op = "fetchExpenses" /\ last.uid # NoUser) =>
        LET col == store[last.uid]
            live == {i \in DOMAIN col : col[i].deleted = Bool(FALSE)}
            list == last.list
        IN  /\ last.err = "none"
            /\ Len(list) = Cardinality(live)
            /\ {list[k].id : k \in 1..Len(list)} = live
            /\ \A k \in 1..Len(list) :
                  /\ list[k].description = col[list[k].id].description
                  /\ list[k].date = col[list[k].id].date
                  /\ list[k].cost = col[list[k].id].cost
                  /\ list[k].deleted = Bool(FALSE)
            /\ \A k \in 1..Len(list) : \A l \in (k + 1)..Len(list) :
                  ~StringLess(list[k].date.s, list[l].date.s)
            /\ live = {} => list = <<>>

C8_Witness ==
    /\ last.op = "fetchExpenses"
    /\ last.uid = currentUser
    /\ Len(last.list) = 2
    /\ last.list[1].id = 1
    /\ last.list[2].id = 2
    /\ last.list[1].date = Str(<<"2">>)
    /\ last.list[2].date = Str(<<"1">>)

(***************************************************************************)
(* C9. authedFetch whose response has status 401 fails with Unauthorized   *)
(* and redirects to /signin exactly once; for any other status it does not *)
(* redirect and returns the response.                                      *)
(***************************************************************************)
C9_UnauthorizedRedirectsOnce ==
    [][last'.op = "authedFetch" =>
          IF last'.status = 401
          THEN /\ last'.err = "Unauthorized"
               /\ last'.assigns = 1
               /\ location' = "/signin"
          ELSE /\ last'.err = "none"
               /\ last'.assigns = 0
               /\ location' = location]_vars

C9_Witness ==
    /\ last.op = "authedFetch"
    /\ last.status = 401
    /\ last.err = "Unauthorized"
    /\ last.assigns = 1
    /\ location = "/signin"

(***************************************************************************)
(* C10. Every record a successful addExpense persists has a non-empty      *)
(* stored description, whatever the input description was.                 *)
(***************************************************************************)
C10_StoredDescriptionNonEmpty ==
    [][(SignedInCall("addExpense") /\ last'.err = "none") =>
          \A i \in DOMAIN store'[currentUser] \ DOMAIN store[currentUser] :
              store'[currentUser][i].description # Str(<<>>)]_vars

C10_FailingInput ==
    /\ last.op = "addExpense"
    /\ last.err = "none"
    /\ last.arg.description = Str(<<" ">>)
    /\ \E i \in DOMAIN store[last.uid] : store[last.uid][i].description = Str(<<>>)

====
